---- MODULE Spec2Model ----
(***************************************************************************)
(* Guards of the NestJS "guard" application: AuthGuard, BusinessGuard, the *)
(* AuthMetaData decorator, the bindings of AppController and main.ts, and  *)
(* the guard pass the router makes for every request before it dispatches  *)
(* to a handler.                                                           *)
(***************************************************************************)
EXTENDS Integers, Sequences, FiniteSets, TLC

VARIABLES bindings, metadata, req

vars == <<bindings, metadata, req>>

(***************************************************************************)
(* Bounds of the model.                                                    *)
(***************************************************************************)
\* longest argument list given to AuthMetaData(...)
MaxTags == 2
\* longest guard list given to one method-scoped @UseGuards(...)
MaxGuards == 2

(***************************************************************************)
(* Optional values: undefined, or a defined value.                         *)
(***************************************************************************)
Undefined == <<>>

Defined(v) == <<v>>

IsDefined(o) == o # Undefined

ValueOf(o) == o[1]

(***************************************************************************)
(* Static names of the application.                                        *)
(***************************************************************************)
Handlers == {"getHello", "test", "getPublic"}

Controller == "AppController"

Targets == Handlers \cup {Controller}

Requests == {"r1", "r2"}

SkipTag == "SkipAuthorizationCheck"

Tags == {SkipTag, "Other"}

API_KEY == "MY_API_KEY"

BUSINESS_ID == "892367480"

HeaderKeys == {"api_key", "business_id"}

HeaderVals == {"", "MY_API", API_KEY, BUSINESS_ID}

\* every header mapping: a function from the header names present to values
HeaderMaps == UNION {[K -> HeaderVals] : K \in SUBSET HeaderKeys}

\* request.headers[k]: undefined when the header is absent
Header(headers, k) == IF k \in DOMAIN headers THEN Defined(headers[k]) ELSE Undefined

\* truthiness of an optional string: undefined and "" are falsy
Truthy(o) == IsDefined(o) /\ ValueOf(o) # ""

SeqsUpTo(S, n) == UNION {[1..k -> S] : k \in 0..n}

Includes(s, x) == \E i \in 1..Len(s) : s[i] = x

(***************************************************************************)
(* Metadata: SetMetadata('authorized', metadata) on a handler or on the    *)
(* controller.  An undecorated target has no value for the key.            *)
(***************************************************************************)
AuthMetaData(tags) == Defined(tags)

MetaVals == {Undefined} \cup {AuthMetaData(s) : s \in SeqsUpTo(Tags, MaxTags)}

\* the decorations of one controller: any value on the controller and on
\* one of its handlers (the guard of a request reads no other handler's)
MetaTables ==
  {[t \in Targets |-> IF t = Controller THEN c ELSE IF t = h THEN v ELSE Undefined] :
     h \in Handlers, v \in MetaVals, c \in MetaVals}

\* the decorations of app.controller.ts: only getPublic is decorated
CommittedMetadata ==
  [t \in Targets |-> IF t = "getPublic" THEN AuthMetaData(<<SkipTag>>) ELSE Undefined]

NoMetadata == [t \in Targets |-> Undefined]

\* a lookup that finds the value of any decorated target
Reflector_get_AnyTarget(meta, key, target) ==
  IF key = "authorized" /\ \E t \in Targets : IsDefined(meta[t])
  THEN meta[CHOOSE t \in Targets : IsDefined(meta[t])]
  ELSE Undefined

\* Reflector.get(key, target)
Reflector_get(meta, key, target) ==
  IF key = "authorized" THEN meta[target] ELSE Undefined

\* Reflector.getAllAndMerge(key, targets): the defined values, concatenated
RECURSIVE getAllAndMerge(_, _, _)
getAllAndMerge(meta, key, targets) ==
  IF targets = <<>> THEN Undefined
  ELSE LET first == Reflector_get(meta, key, Head(targets))
           rest == getAllAndMerge(meta, key, Tail(targets))
       IN IF ~IsDefined(first) THEN rest
          ELSE IF ~IsDefined(rest) THEN first
          ELSE Defined(ValueOf(first) \o ValueOf(rest))

\* Reflector.getAllAndOverride(key, targets): the first defined value
RECURSIVE getAllAndOverride(_, _, _)
getAllAndOverride(meta, key, targets) ==
  IF targets = <<>> THEN Undefined
  ELSE IF IsDefined(Reflector_get(meta, key, Head(targets)))
       THEN Reflector_get(meta, key, Head(targets))
       ELSE getAllAndOverride(meta, key, Tail(targets))

(***************************************************************************)
(* Guards.  A guard instance is its class and whether its constructor was  *)
(* given a Reflector.  A verdict is "allow" (true), "deny" (false) or      *)
(* "throw" (canActivate raised an exception).                              *)
(***************************************************************************)
InjectedAuthGuard == [class |-> "AuthGuard", reflector |-> TRUE]

\* new AuthGuard(): the constructor's reflector parameter is left undefined
NewAuthGuard == [class |-> "AuthGuard", reflector |-> FALSE]

TheBusinessGuard == [class |-> "BusinessGuard", reflector |-> FALSE]

\* the value of authMetaData in AuthGuard.canActivate
AuthGuard_authMetaData(meta, handler) ==
  getAllAndOverride(meta, "authorized", <<handler, Controller>>)

\* a guard that looks for the bypass tag only at the head of the sequence
AuthGuard_canActivate_FirstTag(guard, meta, handler, headers) ==
  IF ~guard.reflector THEN "throw"
  ELSE IF IsDefined(AuthGuard_authMetaData(meta, handler))
          /\ Len(ValueOf(AuthGuard_authMetaData(meta, handler))) > 0
          /\ ValueOf(AuthGuard_authMetaData(meta, handler))[1] = SkipTag
       THEN "allow"
  ELSE IF Header(headers, "api_key") = Defined(API_KEY) THEN "allow"
  ELSE "deny"

\* a guard that accepts any non-empty api_key
AuthGuard_canActivate_AnyKey(guard, meta, handler, headers) ==
  IF ~guard.reflector THEN "throw"
  ELSE IF IsDefined(AuthGuard_authMetaData(meta, handler))
          /\ Includes(ValueOf(AuthGuard_authMetaData(meta, handler)), SkipTag)
       THEN "allow"
  ELSE IF Truthy(Header(headers, "api_key")) THEN "allow"
  ELSE "deny"

\* a guard that compares api_key with another secret
AuthGuard_canActivate_OtherSecret(guard, meta, handler, headers) ==
  IF ~guard.reflector THEN "throw"
  ELSE IF IsDefined(AuthGuard_authMetaData(meta, handler))
          /\ Includes(ValueOf(AuthGuard_authMetaData(meta, handler)), SkipTag)
       THEN "allow"
  ELSE IF Header(headers, "api_key") = Defined("MY_API") THEN "allow"
  ELSE "deny"

AuthGuard_canActivate(guard, meta, handler, headers) ==
  IF ~guard.reflector THEN "throw"
  ELSE IF IsDefined(AuthGuard_authMetaData(meta, handler))
          /\ Includes(ValueOf(AuthGuard_authMetaData(meta, handler)), SkipTag)
       THEN "allow"
  \* apiKey is the headers object itself, which is always truthy
  ELSE IF Header(headers, "api_key") = Defined(API_KEY) THEN "allow"
  ELSE "deny"

\* a guard that answers a refusal with a promise it never settles
BusinessGuard_canActivate_NeverSettles(headers) ==
  IF Truthy(Header(headers, "business_id"))
     /\ Header(headers, "business_id") = Defined(BUSINESS_ID)
  THEN "allow"
  ELSE "pending"

\* a guard that accepts any non-empty business_id
BusinessGuard_canActivate_Truthy(headers) ==
  IF Truthy(Header(headers, "business_id")) THEN "allow" ELSE "deny"

BusinessGuard_canActivate(headers) ==
  IF Truthy(Header(headers, "business_id"))
     /\ Header(headers, "business_id") = Defined(BUSINESS_ID)
  THEN "allow"
  ELSE "deny"

canActivate(guard, meta, handler, headers) ==
  IF guard.class = "AuthGuard"
  THEN AuthGuard_canActivate(guard, meta, handler, headers)
  ELSE BusinessGuard_canActivate(headers)

(***************************************************************************)
(* Binding table: the guards given to useGlobalGuards, to @UseGuards on    *)
(* the controller and to @UseGuards on a handler.                          *)
(***************************************************************************)
NoHandlerGuards == [h \in Handlers |-> <<>>]

OnTest(guards) == [h \in Handlers |-> IF h = "test" THEN guards ELSE <<>>]

\* app.controller.ts: @UseGuards(AuthGuard) on the controller
ControllerScoped ==
  [global |-> <<>>, group |-> <<InjectedAuthGuard>>, handler |-> NoHandlerGuards]

\* @UseGuards(AuthGuard, BusinessGuard) on test
MethodScopedBoth ==
  [global |-> <<>>, group |-> <<>>,
   handler |-> OnTest(<<InjectedAuthGuard, TheBusinessGuard>>)]

\* @UseGuards(AuthGuard) on test
MethodScoped ==
  [global |-> <<>>, group |-> <<>>, handler |-> OnTest(<<InjectedAuthGuard>>)]

\* both @UseGuards lines commented out
Unbound == [global |-> <<>>, group |-> <<>>, handler |-> NoHandlerGuards]

\* main.ts with app.useGlobalGuards(new AuthGuard()) uncommented
GlobalBinding ==
  [global |-> <<NewAuthGuard>>, group |-> <<>>, handler |-> NoHandlerGuards]

ShownBindings ==
  {ControllerScoped, MethodScopedBoth, MethodScoped, Unbound, GlobalBinding}

BindingTables ==
  {[global |-> g, group |-> c, handler |-> OnTest(m)] :
     g \in SeqsUpTo({NewAuthGuard, TheBusinessGuard}, 1),
     c \in SeqsUpTo({InjectedAuthGuard, TheBusinessGuard}, 1),
     m \in SeqsUpTo({InjectedAuthGuard, TheBusinessGuard}, MaxGuards)}

\* a router that runs the handler's own guards first
GuardsFor_HandlerFirst(table, handler) ==
  table.handler[handler] \o table.group \o table.global

\* the guards the router runs for a handler, in order
GuardsFor(table, handler) == table.global \o table.group \o table.handler[handler]

(***************************************************************************)
(* Requests.  phase: "closed" (never sent), "idle" (not yet received),     *)
(* "guarding" (in the guard pass), "dispatched" (handler ran),             *)
(* "rejected" (a guard returned false: 403), "error" (a guard threw: 500). *)
(* next is the index of the next guard to call; running maps the index of  *)
(* every guard in evaluation to the result it is about to deliver; log is  *)
(* the sequence of evaluation events of the request.  inbound is the       *)
(* header mapping as it arrived, headers the request.headers object the    *)
(* guards are given.                                                       *)
(***************************************************************************)
NoHeaders == [k \in {} |-> ""]

NewRequest(phase) ==
  [phase |-> phase, handler |-> "getHello", inbound |-> NoHeaders, headers |-> NoHeaders,
   guards |-> <<>>, next |-> 1, running |-> <<>>, log |-> <<>>, runs |-> 0]

StartEvent(i) == [ev |-> "start", idx |-> i, verdict |-> "none"]

EndEvent(i, v) == [ev |-> "end", idx |-> i, verdict |-> v]

Init ==
  /\ \/ bindings \in {ControllerScoped, MethodScopedBoth} /\ metadata \in MetaTables
     \/ bindings \in BindingTables \cup ShownBindings
          /\ metadata \in {CommittedMetadata, NoMetadata}
  /\ req \in {q \in [Requests -> {NewRequest("idle"), NewRequest("closed")}] :
                /\ q["r1"].phase = "idle"
                /\ q["r2"].phase = "idle" =>
                     (bindings = ControllerScoped /\ metadata = CommittedMetadata)}

\* the router resolves the handler and gathers its guards
Receive(r, h, headers) ==
  /\ req[r].phase = "idle"
  /\ req' = [req EXCEPT ![r] =
       [@ EXCEPT !.phase = "guarding", !.handler = h, !.inbound = headers,
                 !.headers = headers,
                 !.guards = GuardsFor(bindings, h), !.next = 1]]
  /\ UNCHANGED <<bindings, metadata>>

\* a router that goes on to the next guard after a guard returned false
HasNextGuard_AfterDeny(q) ==
  /\ q.phase \in {"guarding", "rejected"}
  /\ q.next <= Len(q.guards)

\* the guard pass goes on while no guard has returned false and guards are left
HasNextGuard(q) ==
  /\ q.phase = "guarding"
  /\ q.next <= Len(q.guards)

\* a router that does not await the result of a guard
Settled_NoAwait(q) == TRUE

\* the result of every guard called so far has arrived
Settled(q) == DOMAIN q.running = {}

\* a guard that keeps the context of one request for all of them
ExecutionContext_Shared(r) == req["r1"]

\* the context a guard is given: the request of its own call and its handler
ExecutionContext(r) == req[r]

\* an AuthGuard that removes business_id from the request it has checked
HeadersAfter_AuthDropsBusinessId(guard, headers) ==
  IF guard.class = "AuthGuard"
  THEN [k \in DOMAIN headers \ {"business_id"} |-> headers[k]]
  ELSE headers

\* an AuthGuard that removes the api_key it has read from the request
HeadersAfter_AuthConsumesKey(guard, headers) ==
  IF guard.class = "AuthGuard"
  THEN [k \in DOMAIN headers \ {"api_key"} |-> headers[k]]
  ELSE headers

\* request.headers after canActivate: both guards only read it
HeadersAfter(guard, headers) == headers

\* the router calls canActivate of the next guard and awaits its result
Invoke(r) ==
  /\ HasNextGuard(req[r])
  /\ Settled(req[r])
  /\ LET q == req[r]
         i == q.next
         context == ExecutionContext(r)
         v == canActivate(q.guards[i], metadata, context.handler, context.headers)
     IN req' = [req EXCEPT ![r] =
          [@ EXCEPT !.next = i + 1,
                    !.headers = HeadersAfter(q.guards[i], q.headers),
                    !.running = [j \in DOMAIN q.running \cup {i} |->
                                   IF j = i THEN v ELSE q.running[j]],
                    !.log = Append(@, StartEvent(i))]]
  /\ UNCHANGED <<bindings, metadata>>

\* a router that lets a request through whatever its guards return
AfterVerdict_IgnoreDeny(phase, v) ==
  IF phase # "guarding" THEN phase
  ELSE IF v = "throw" THEN "error"
  ELSE "guarding"

\* the phase a request is in after guard verdict v
AfterVerdict(phase, v) ==
  IF phase # "guarding" THEN phase
  ELSE IF v = "allow" THEN "guarding"
  ELSE IF v = "deny" THEN "rejected"
  ELSE "error"

\* the value canActivate returned is a boolean or an exception, not a
\* promise still pending
HasSettled(v) == v \in {"allow", "deny", "throw"}

\* the awaited result of guard i arrives
Complete(r) ==
  /\ req[r].phase \in {"guarding", "rejected", "error"}
  /\ \E i \in DOMAIN req[r].running :
       LET q == req[r]
           v == q.running[i]
       IN /\ HasSettled(v)
          /\ req' = [req EXCEPT ![r] =
            [@ EXCEPT !.phase = AfterVerdict(q.phase, v),
                      !.running = [j \in DOMAIN q.running \ {i} |-> q.running[j]],
                      !.log = Append(@, EndEvent(i, v))]]
  /\ UNCHANGED <<bindings, metadata>>

\* every guard returned true: the handler runs
Dispatch(r) ==
  /\ req[r].phase = "guarding"
  /\ req[r].next > Len(req[r].guards)
  /\ Settled(req[r])
  /\ req' = [req EXCEPT ![r] = [@ EXCEPT !.phase = "dispatched", !.runs = @ + 1]]
  /\ UNCHANGED <<bindings, metadata>>

Next ==
  \/ \E r \in Requests, h \in Handlers, headers \in HeaderMaps : Receive(r, h, headers)
  \/ \E r \in Requests : Invoke(r)
  \/ \E r \in Requests : Complete(r)
  \/ \E r \in Requests : Dispatch(r)

Spec == Init /\ [][Next]_vars

\* the event loop runs every continuation that is ready: each step of the
\* guard pass of a request that stays possible is eventually taken
Fairness ==
  \A r \in Requests :
    WF_vars(Invoke(r)) /\ WF_vars(Complete(r)) /\ WF_vars(Dispatch(r))

\* every binding table under the decorations of app.controller.ts or none;
\* two requests in the deployment of app.controller.ts
FairInit ==
  /\ bindings \in BindingTables \cup ShownBindings
  /\ metadata \in {CommittedMetadata, NoMetadata}
  /\ req \in {q \in [Requests -> {NewRequest("idle"), NewRequest("closed")}] :
                /\ q["r1"].phase = "idle"
                /\ q["r2"].phase = "idle" <=>
                     (bindings = ControllerScoped /\ metadata = CommittedMetadata)}

FairSpec == FairInit /\ [][Next]_vars /\ Fairness

TypeOK ==
  /\ bindings \in BindingTables \cup ShownBindings
  /\ metadata \in MetaTables
  /\ \A r \in Requests :
       /\ req[r].phase \in {"closed", "idle", "guarding", "dispatched", "rejected", "error"}
       /\ req[r].handler \in Handlers
       /\ req[r].headers \in HeaderMaps
       /\ req[r].runs \in 0..1

(***************************************************************************)
(* Vocabulary of the properties.                                           *)
(***************************************************************************)
\* the completed evaluations of request r, as <<guard, verdict>> pairs
Evaluated(r) ==
  {<<req[r].guards[req[r].log[i].idx], req[r].log[i].verdict>> :
     i \in {j \in 1..Len(req[r].log) : req[r].log[j].ev = "end"}}

\* the override rule: the handler's sequence when the handler defines the
\* key, the controller's otherwise
OverrideRule(h) == IF IsDefined(metadata[h]) THEN metadata[h] ELSE metadata[Controller]

\* the resolved sequence, the empty one when neither site defines the key
ResolvedTags(h) == IF IsDefined(OverrideRule(h)) THEN ValueOf(OverrideRule(h)) ELSE <<>>

Bypassed(h) == \E i \in 1..Len(ResolvedTags(h)) : ResolvedTags(h)[i] = SkipTag

HasApiKey(r) == "api_key" \in DOMAIN req[r].headers /\ req[r].headers["api_key"] = "MY_API_KEY"

HasBusinessId(r) ==
  "business_id" \in DOMAIN req[r].headers /\ req[r].headers["business_id"] = "892367480"

\* the verdicts the framework-constructed AuthGuard returned for request r
AuthVerdicts(r) == {e[2] : e \in {x \in Evaluated(r) : x[1] = InjectedAuthGuard}}

BusinessVerdicts(r) == {e[2] : e \in {x \in Evaluated(r) : x[1] = TheBusinessGuard}}

\* C1: whenever the 'authorized' metadata resolved by the override rule
\* contains 'SkipAuthorizationCheck', AuthGuard.canActivate returns allow,
\* whatever the headers are.
C1_BypassDominates ==
  \A r \in Requests : Bypassed(req[r].handler) => AuthVerdicts(r) \subseteq {"allow"}

\* the bypass let a request through with no api_key, with a wrong one and
\* behind a tag that is not the first of its sequence
C1_Witness ==
  \E r \in Requests :
    /\ "allow" \in AuthVerdicts(r)
    /\ ~HasApiKey(r)
    /\ "api_key" \in DOMAIN req[r].headers
    /\ ResolvedTags(req[r].handler) = <<"Other", SkipTag>>

\* C2: when the resolved metadata does not contain the bypass tag (also
\* when it is undefined at both sites), AuthGuard.canActivate returns allow
\* if and only if the api_key header equals 'MY_API_KEY' exactly.
C2_KeyDecidesWithoutBypass ==
  \A r \in Requests :
    ~Bypassed(req[r].handler) =>
      AuthVerdicts(r) \subseteq {IF HasApiKey(r) THEN "allow" ELSE "deny"}

\* metadata undefined at both sites and the header absent: deny
C2_Witness ==
  \E r \in Requests :
    /\ "deny" \in AuthVerdicts(r)
    /\ ~IsDefined(metadata[req[r].handler]) /\ ~IsDefined(metadata[Controller])
    /\ "api_key" \notin DOMAIN req[r].headers

\* C3 as stated: allow when api_key is the secret, deny for every other
\* value of api_key, whatever the metadata.
C3_Original ==
  \A r \in Requests :
    AuthVerdicts(r) \subseteq {IF HasApiKey(r) THEN "allow" ELSE "deny"}

\* C3 (amended): AuthGuard returns allow whenever api_key is the secret,
\* and returns deny for every other value, an absent key included, unless
\* the resolved 'authorized' metadata contains the bypass tag.
C3_KeyOrBypass ==
  \A r \in Requests :
    /\ HasApiKey(r) => AuthVerdicts(r) \subseteq {"allow"}
    /\ (~HasApiKey(r) /\ "allow" \in AuthVerdicts(r)) => Bypassed(req[r].handler)
    /\ (~HasApiKey(r) /\ ~Bypassed(req[r].handler)) => AuthVerdicts(r) \subseteq {"deny"}

\* the secret was accepted on a handler without bypass
C3_Witness ==
  \E r \in Requests :
    /\ HasApiKey(r) /\ ~Bypassed(req[r].handler)
    /\ "allow" \in AuthVerdicts(r)

\* C4: the lookup of 'authorized' resolves to exactly the handler's
\* sequence whenever the handler defines the key and to the controller's
\* only otherwise, never to a merge; a handler that defines the key without
\* the bypass tag is not bypassed by a controller that defines it with the tag.
C4_HandlerOverridesGroup ==
  \A r \in Requests :
    req[r].phase \notin {"closed", "idle"} =>
      /\ AuthGuard_authMetaData(metadata, req[r].handler) = OverrideRule(req[r].handler)
      /\ ( /\ IsDefined(metadata[req[r].handler])
           /\ ~Includes(ValueOf(metadata[req[r].handler]), SkipTag)
           /\ ~HasApiKey(r) )
         => AuthVerdicts(r) \subseteq {"deny"}

\* the handler's own sequence, without the tag, won over a controller with it
C4_Witness ==
  \E r \in Requests :
    /\ IsDefined(metadata[req[r].handler])
    /\ ~Includes(ValueOf(metadata[req[r].handler]), SkipTag)
    /\ IsDefined(metadata[Controller])
    /\ Includes(ValueOf(metadata[Controller]), SkipTag)
    /\ "deny" \in AuthVerdicts(r)

\* C5: BusinessGuard.canActivate returns allow if and only if business_id
\* is exactly '892367480', whatever the metadata; the bypass tag has no
\* effect on it.
C5_BusinessIdDecides ==
  \A r \in Requests :
    BusinessVerdicts(r) \subseteq {IF HasBusinessId(r) THEN "allow" ELSE "deny"}

\* BusinessGuard denied on a handler that carries the bypass tag
C5_Witness ==
  \E r \in Requests :
    /\ Bypassed(req[r].handler)
    /\ "business_id" \notin DOMAIN req[r].headers
    /\ "deny" \in BusinessVerdicts(r)

Terminal(r) == req[r].phase \in {"dispatched", "rejected", "error"}

\* every guard bound to the handler of request r returns allow for it
AllAllow(r) ==
  \A i \in 1..Len(req[r].guards) :
    canActivate(req[r].guards[i], metadata, req[r].handler, req[r].headers) = "allow"

\* C6: the handler is dispatched if and only if every bound guard returned
\* allow, and a request one of whose guards returned deny is rejected and
\* its handler never runs; a handler with no guards is always dispatched;
\* for [AuthGuard, BusinessGuard] the api_key alone is rejected, api_key
\* with business_id is dispatched.
C6_DispatchIffAllAllow ==
  \A r \in Requests :
    /\ Terminal(r) => (req[r].phase = "dispatched" <=> AllAllow(r))
    /\ req[r].phase = "dispatched" =>
         \A i \in 1..Len(req[r].guards) : <<req[r].guards[i], "allow">> \in Evaluated(r)
    /\ req[r].runs = (IF req[r].phase = "dispatched" THEN 1 ELSE 0)
    /\ (\E e \in Evaluated(r) : e[2] = "deny") => (req[r].phase = "rejected" /\ req[r].runs = 0)
    /\ (Terminal(r) /\ req[r].guards = <<>>) => req[r].phase = "dispatched"
    /\ (Terminal(r) /\ req[r].guards = <<InjectedAuthGuard, TheBusinessGuard>>) =>
         /\ (HasApiKey(r) /\ "business_id" \notin DOMAIN req[r].headers)
              => req[r].phase = "rejected"
         /\ (HasApiKey(r) /\ HasBusinessId(r)) => req[r].phase = "dispatched"

\* on [AuthGuard, BusinessGuard] the api_key alone was rejected by the
\* second guard after the first allowed
C6_Witness ==
  \E r \in Requests :
    /\ req[r].guards = <<InjectedAuthGuard, TheBusinessGuard>>
    /\ HasApiKey(r) /\ "business_id" \notin DOMAIN req[r].headers
    /\ ~Bypassed(req[r].handler)
    /\ <<InjectedAuthGuard, "allow">> \in Evaluated(r)
    /\ <<TheBusinessGuard, "deny">> \in Evaluated(r)
    /\ req[r].phase = "rejected"

\* the indices of the guards whose evaluation has started for request r
Started(r) ==
  {req[r].log[i].idx : i \in {j \in 1..Len(req[r].log) : req[r].log[j].ev = "start"}}

\* C7: once a guard has returned deny for a request, no later guard of the
\* list is ever evaluated for it and the request is rejected; on
\* [AuthGuard, BusinessGuard] BusinessGuard is evaluated only after
\* AuthGuard has allowed.
C7_ShortCircuit ==
  \A r \in Requests :
    /\ \A k \in 1..Len(req[r].log) :
         (req[r].log[k].ev = "end" /\ req[r].log[k].verdict = "deny") =>
           /\ \A i \in Started(r) : i <= req[r].log[k].idx
           /\ k = Len(req[r].log)
           /\ req[r].phase = "rejected"
           /\ req[r].runs = 0
    /\ (req[r].guards = <<InjectedAuthGuard, TheBusinessGuard>> /\ 2 \in Started(r)) =>
         <<InjectedAuthGuard, "allow">> \in Evaluated(r)

\* AuthGuard denied a request that BusinessGuard would have allowed, and
\* BusinessGuard was not evaluated
C7_Witness ==
  \E r \in Requests :
    /\ req[r].guards = <<InjectedAuthGuard, TheBusinessGuard>>
    /\ HasBusinessId(r)
    /\ req[r].log = <<StartEvent(1), EndEvent(1, "deny")>>
    /\ req[r].phase = "rejected"

\* C8: with AuthGuard on the controller and the bypass tag on getPublic
\* only, a request without api_key is rejected on getHello and on test and
\* dispatched on getPublic.
C8_BypassDoesNotLeak ==
  (bindings = ControllerScoped /\ metadata = CommittedMetadata) =>
    \A r \in Requests :
      (Terminal(r) /\ "api_key" \notin DOMAIN req[r].headers) =>
        req[r].phase = (IF req[r].handler = "getPublic" THEN "dispatched" ELSE "rejected")

\* without api_key, one request was dispatched on getPublic and another
\* rejected on test
C8_Witness ==
  /\ bindings = ControllerScoped /\ metadata = CommittedMetadata
  /\ \A r \in Requests : "api_key" \notin DOMAIN req[r].headers
  /\ req["r1"].handler = "getPublic" /\ req["r1"].phase = "dispatched"
  /\ req["r2"].handler = "test" /\ req["r2"].phase = "rejected"

\* C9: under every binding the repository shows, the global one that
\* constructs the guard with new AuthGuard() included, the evaluation of a
\* guard ends in allow or deny and never in an exception.
C9_NoGuardThrows ==
  bindings \in ShownBindings =>
    \A r \in Requests :
      /\ req[r].phase # "error"
      /\ \A e \in Evaluated(r) : e[2] \in {"allow", "deny"}

\* C10: the guards of a request are those of the global scope, then the
\* controller's, then the handler's, each in declaration order; they are
\* evaluated one at a time in that order, a guard starting only after the
\* previous one has completed with allow.
C10_OneAtATimeInScopeOrder ==
  \A r \in Requests :
    /\ req[r].phase \notin {"closed", "idle"} =>
         req[r].guards =
           bindings.global \o bindings.group \o bindings.handler[req[r].handler]
    /\ Cardinality(DOMAIN req[r].running) <= 1
    /\ \A k \in 1..Len(req[r].log) :
         LET e == req[r].log[k]
         IN IF e.ev = "start"
            THEN /\ e.idx = Cardinality({j \in 1..k : req[r].log[j].ev = "start"})
                 /\ k > 1 => req[r].log[k - 1] = EndEvent(e.idx - 1, "allow")
                 /\ k = 1 => e.idx = 1
            ELSE k > 1 /\ req[r].log[k - 1] = StartEvent(e.idx)

\* a guard of each scope has run, the handler's last
C10_Witness ==
  \E r \in Requests :
    /\ Len(bindings.global) = 1 /\ Len(bindings.group) = 1
    /\ Len(bindings.handler[req[r].handler]) = 2
    /\ bindings.group # bindings.global
    /\ Len(req[r].log) = 8
    /\ req[r].phase = "dispatched"

\* the verdict of guard g evaluated alone
PassOutcomeVerdict(g, h, headers) == canActivate(g, metadata, h, headers)

\* the outcome of a guard pass over guards gs, taken alone: the first
\* verdict that is not allow decides
RECURSIVE PassOutcome(_, _, _)
PassOutcome(gs, h, headers) ==
  IF gs = <<>> THEN "dispatched"
  ELSE LET v == canActivate(Head(gs), metadata, h, headers)
       IN IF v = "allow" THEN PassOutcome(Tail(gs), h, headers)
          ELSE IF v = "deny" THEN "rejected"
          ELSE "error"

\* request r gets what it would get alone
AsIfAlone(r) ==
  /\ \A k \in 1..Len(req[r].log) :
       req[r].log[k].ev = "end" =>
         req[r].log[k].verdict =
           canActivate(req[r].guards[req[r].log[k].idx], metadata,
                       req[r].handler, req[r].headers)
  /\ Terminal(r) => req[r].phase = PassOutcome(req[r].guards, req[r].handler, req[r].headers)

\* a step of one request leaves every other request, the binding table and
\* the metadata as they were
StepOfOneRequest ==
  /\ bindings' = bindings
  /\ metadata' = metadata
  /\ \A r, s \in Requests : (r # s /\ req'[r] # req[r]) => req'[s] = req[s]

\* C11: under any interleaving of concurrent requests every request gets
\* the verdicts it would get evaluated alone, and no step of one request
\* changes another request, the binding table or the metadata.
C11_RequestsIndependent ==
  [](\A r \in Requests : AsIfAlone(r)) /\ [][StepOfOneRequest]_vars

\* two requests in evaluation at once, about to get different verdicts on
\* the same handler
C11_Witness ==
  /\ req["r1"].handler = req["r2"].handler
  /\ req["r1"].phase = "guarding" /\ req["r2"].phase = "guarding"
  /\ DOMAIN req["r1"].running = {1} /\ DOMAIN req["r2"].running = {1}
  /\ req["r1"].running[1] = "allow" /\ req["r2"].running[1] = "deny"

\* the permutations of 1..n
Perms(n) == {f \in [1..n -> 1..n] : \A i, j \in 1..n : f[i] = f[j] => i = j}

Permuted(gs, f) == [i \in 1..Len(gs) |-> gs[f[i]]]

\* C12: the outcome of a request, its handler dispatched or not, is the
\* same for every permutation of the guards bound to the handler, and the
\* verdict of each guard is the one it returns alone on the request as it
\* arrived, whatever its place in the list.
C12_OrderIrrelevant ==
  \A r \in Requests :
    /\ Terminal(r) =>
         \A f \in Perms(Len(req[r].guards)) :
           (PassOutcome(Permuted(req[r].guards, f), req[r].handler, req[r].inbound)
              = "dispatched") <=> (req[r].phase = "dispatched")
    /\ \A k \in 1..Len(req[r].log) :
         req[r].log[k].ev = "end" =>
           req[r].log[k].verdict =
             PassOutcomeVerdict(req[r].guards[req[r].log[k].idx], req[r].handler, req[r].inbound)

\* BusinessGuard first allowed and AuthGuard second denied: the order
\* opposite to the repository's, with the same rejection
C12_Witness ==
  \E r \in Requests :
    /\ req[r].guards = <<TheBusinessGuard, InjectedAuthGuard>>
    /\ req[r].log = <<StartEvent(1), EndEvent(1, "allow"), StartEvent(2), EndEvent(2, "deny")>>
    /\ req[r].phase = "rejected"
    /\ PassOutcome(<<InjectedAuthGuard, TheBusinessGuard>>, req[r].handler, req[r].inbound)
         = "rejected"

\* a step that evaluates a guard for request r: its log grows
Evaluates(r) == req'[r].log # req[r].log

\* an evaluation changes nothing but the router's own bookkeeping
EvaluationFrame ==
  \A r \in Requests :
    Evaluates(r) =>
      /\ req'[r].headers = req[r].headers
      /\ req'[r].inbound = req[r].inbound
      /\ req'[r].handler = req[r].handler
      /\ req'[r].guards = req[r].guards
      /\ metadata' = metadata
      /\ bindings' = bindings

\* the same guard evaluated twice for one request returned the same verdict
SameVerdictTwice ==
  \A r \in Requests :
    \A k1, k2 \in 1..Len(req[r].log) :
      ( /\ req[r].log[k1].ev = "end" /\ req[r].log[k2].ev = "end"
        /\ req[r].guards[req[r].log[k1].idx] = req[r].guards[req[r].log[k2].idx] )
      => req[r].log[k1].verdict = req[r].log[k2].verdict

\* C13: the evaluation of a guard, whatever it returns, leaves the
\* request's headers, the metadata of every handler and of the controller,
\* the binding table and the guard instances unchanged; the same guard
\* evaluated twice on the same context returns the same verdict.
C13_EvaluationChangesNothing ==
  [][EvaluationFrame]_vars /\ []SameVerdictTwice

\* AuthGuard ran twice for one request and allowed twice on its api_key
C13_Witness ==
  \E r \in Requests :
    /\ ~Bypassed(req[r].handler)
    /\ \E k1, k2 \in 1..Len(req[r].log) :
         /\ k1 < k2
         /\ req[r].log[k1].ev = "end" /\ req[r].log[k2].ev = "end"
         /\ req[r].guards[req[r].log[k1].idx] = InjectedAuthGuard
         /\ req[r].guards[req[r].log[k2].idx] = InjectedAuthGuard
         /\ req[r].log[k1].verdict = "allow" /\ req[r].log[k2].verdict = "allow"

\* a request that has reached an outcome keeps it, and its handler does not
\* run again
OutcomeIsFinal ==
  \A r \in Requests :
    Terminal(r) => (req'[r].phase = req[r].phase /\ req'[r].runs = req[r].runs)

\* the handler of a request has run at most once, and not at all when the
\* request was refused
AtMostOneOutcome ==
  \A r \in Requests :
    /\ req[r].runs <= 1
    /\ req[r].phase \in {"rejected", "error"} => req[r].runs = 0
    /\ req[r].phase = "dispatched" => req[r].runs = 1

\* C14: under fair scheduling every request that has begun its guard pass
\* eventually is dispatched or refused, never both: no request stays in
\* evaluation forever and no refused request is dispatched later.
C14_EventuallyOneOutcome ==
  /\ \A r \in Requests : (req[r].phase = "guarding") ~> Terminal(r)
  /\ [][OutcomeIsFinal]_vars
  /\ []AtMostOneOutcome

\* one request was refused by its second guard while another, received
\* meanwhile, is still waiting for a verdict
C14_Witness ==
  \E r, s \in Requests :
    /\ r # s
    /\ req[r].phase = "rejected" /\ Len(req[r].log) = 2
    /\ req[s].phase = "guarding" /\ DOMAIN req[s].running # {}

====
